---- MODULE Spec2Model ----
(***************************************************************************)
(* ThePebble.py (environment composition orchestrator) and bump_deps.py    *)
(* (version resolver) of fusilli, as state machines.                       *)
(*                                                                         *)
(* Files are records [exists, text]; a config text is a sequence of lines, *)
(* a line is a triple <<kind, a, b>>.  The cache directory PEBBLE_DIR is a  *)
(* set of entries <<dir, name, version>>.                                  *)
(***************************************************************************)
EXTENDS Integers, Sequences, FiniteSets, TLC

VARIABLES
    configFile,    \* thepebble_config.toml beside ThePebble.py
    cached,        \* CACHED_CONFIG, the fingerprint file inside PEBBLE_DIR
    pebble,        \* PEBBLE_DIR exists
    cache,         \* content of PEBBLE_DIR other than CACHED_CONFIG
    presets,       \* CMakeUserPresets.json exists in the plugin directory
    tmpdirs,       \* the TemporaryDirectory build trees of fusilli / the plugin
    pc,            \* position of the running ThePebble.py process, "idle" if none
    args,          \* its parsed command line
    config,        \* the dict load_config() returned to main
    exit,          \* exit status of the last finished process
    lastSetupRun,  \* history: outcome of the last --setup invocation
    lastResetRun,  \* history: outcome of the last --setup run that executed the reset
    everOk,        \* history: some --setup run has completed
    gateSaw,       \* history: what validate_config last read, and its verdict
    versionFile,   \* version.json at REPO_ROOT
    rpc,           \* position of the running bump_deps.py process, "idle" if none
    loc,           \* its local variables
    rexit,         \* exit status of the last finished bump_deps.py process
    envFile,       \* lines appended to the file GITHUB_ENV names
    stdout,        \* the KEY=VALUE lines set_github_env printed
    hist,          \* history: remote answers and writes of the current run
    sortArgs,      \* the two strings _version_sort_key is called on
    sortKeys,      \* the two tuples it returned, <<>> before the calls
    mergeTree,     \* a directory tree the two artifact scripts are run on
    mergeLog,      \* the script runs on mergeTree, in order
    cpc,           \* position of a second ThePebble.py process, "idle" if none
    cexit,         \* exit status of the last finished second process
    cgate,         \* what validate_config of the second process read
    ctmp           \* the TemporaryDirectory build tree of the second process

ovars == <<configFile, cached, pebble, cache, presets, tmpdirs, pc, args, config,
           exit, lastSetupRun, lastResetRun, everOk, gateSaw>>

rvars == <<versionFile, rpc, loc, rexit, envFile, stdout, hist>>

kvars == <<sortArgs, sortKeys>>

mvars == <<mergeTree, mergeLog>>

cvars == <<cpc, cexit, cgate, ctmp>>

vars == <<ovars, rvars, kvars, mvars, cvars>>

-----------------------------------------------------------------------------
(* thepebble_config.toml: text and tomllib.load *)

NoFile == [exists |-> FALSE, text |-> <<>>]
File(t) == [exists |-> TRUE, text |-> t]

VersionKeys ==
    <<"therock_git_ref", "hip_run_id", "hipdnn_integration_tests_run_id",
      "hipdnn_git_ref", "iree_git_tag">>

TagA == <<"iree-", "3.10.0rc20251210">>
TagB == <<"iree-", "3.11.0rc20260301">>

ValueOf(k, tag) == IF k = "iree_git_tag" THEN tag ELSE <<k, "v1">>

KvLine(k, tag) == <<"kv", k, ValueOf(k, tag)>>
HdrLine(t) == <<"hdr", t, <<>>>>
CommentLine == <<"#", "", <<>>>>
BadLine == <<"bad", "", <<>>>>

FullText(tag) ==
    <<HdrLine("versions")>> \o [i \in 1..Len(VersionKeys) |-> KvLine(VersionKeys[i], tag)]

\* the same table written in the opposite key order under a comment
ReorderedText(tag) ==
    <<CommentLine, HdrLine("versions")>>
        \o [i \in 1..Len(VersionKeys) |->
                KvLine(VersionKeys[Len(VersionKeys) + 1 - i], tag)]

TextWithout(k, tag) == SelectSeq(FullText(tag), LAMBDA ln : ln[2] # k)

ConfigTexts ==
    {FullText(TagA), ReorderedText(TagA), FullText(TagB)}
        \cup {TextWithout(VersionKeys[i], TagA) : i \in 1..Len(VersionKeys)}
        \cup {<<CommentLine>>, <<BadLine>>}

ConfigFiles == {File(t) : t \in ConfigTexts} \cup {NoFile}

ParseError == [ok |-> FALSE, tables |-> {}, kv |-> {}]
EmptyDoc == [ok |-> TRUE, tables |-> {}, kv |-> {}]
NoConfig == ParseError

RECURSIVE ParseLines(_, _, _, _)
ParseLines(text, i, table, acc) ==
    IF i > Len(text) THEN acc
    ELSE LET ln == text[i] IN
         CASE ln[1] = "#" -> ParseLines(text, i + 1, table, acc)
           [] ln[1] = "hdr" ->
                IF ln[2] \in acc.tables THEN ParseError
                ELSE ParseLines(text, i + 1, ln[2],
                                [acc EXCEPT !.tables = @ \cup {ln[2]}])
           [] ln[1] = "kv" ->
                IF \E e \in acc.kv : e[1] = table /\ e[2] = ln[2] THEN ParseError
                ELSE ParseLines(text, i + 1, table,
                                [acc EXCEPT !.kv = @ \cup {<<table, ln[2], ln[3]>>}])
           [] OTHER -> ParseError

tomllib_load(f) == IF f.exists THEN ParseLines(f.text, 1, "", EmptyDoc) ELSE ParseError

load_config == tomllib_load(configFile)

HasTable(c, t) == t \in c.tables
HasKey(c, k) == \E e \in c.kv : e[1] = "versions" /\ e[2] = k
Get(c, k) == (CHOOSE e \in c.kv : e[1] = "versions" /\ e[2] = k)[3]

ConfigEq(a, b) == a.tables = b.tables /\ a.kv = b.kv

\* iree_git_tag.replace("iree-", "")
PipVersion(tag) == SelectSeq(tag, LAMBDA t : t # "iree-")

-----------------------------------------------------------------------------
(* PEBBLE_DIR content *)

Unversioned == <<"-">>

\* a file or tree (dir, name) written at version ver, replacing an older one
Add(c, dir, name, ver) ==
    {e \in c : ~(e[1] = dir /\ e[2] = name)} \cup {<<dir, name, ver>>}

Has(c, dir, name) == \E e \in c : e[1] = dir /\ e[2] = name

\* an install script that merges into its output directory
ReplaceInstallMerges(c, dir, name, ver) == Add(c, dir, name, ver)

\* install_rocm_from_artifacts.py --output-dir d: wipes d, then installs
ReplaceInstall(c, dir, name, ver) ==
    {e \in c : e[1] # dir} \cup {<<dir, name, ver>>}

\* a fetch without --flatten semantics: the output directory is wiped first
FlattenFetchWipes(c, dir, name, ver) == ReplaceInstall(c, dir, name, ver)

\* fetch_artifacts.py --output-dir d --flatten: merges into d
FlattenFetch(c, dir, name, ver) == Add(c, dir, name, ver)

\* an install step that clears its prefix before copying
CMakeInstallWipes(c, name, ver) == ReplaceInstall(c, "dist", name, ver)

\* cmake --install with CMAKE_INSTALL_PREFIX=INSTALL_DIR
CMakeInstall(c, name, ver) == Add(c, "dist", name, ver)

\* a reset that waits for the tree to be free and so leaves it while in use
StartFreshKeepsTree(st) == [cache |-> st.cache, cached |-> NoFile]

\* a reset that removes the installed trees but not the fingerprint
StartFreshKeepsFingerprint(st) == [cache |-> {}, cached |-> st.cached]

\* shutil.rmtree(PEBBLE_DIR): everything below it, the fingerprint included
StartFresh(st) == [cache |-> {}, cached |-> NoFile]

-----------------------------------------------------------------------------
(* main: control flow *)

NoGate == [ran |-> FALSE, cur |-> NoFile, fp |-> NoFile, passed |-> FALSE]

NoArgs == [setup |-> FALSE, ci |-> FALSE]
ArgSets == [setup : BOOLEAN, ci : BOOLEAN]

\* main calling install_hip after install_hipdnn_integration_tests
SetupOrderReplaceLate ==
    <<"load_config", "reset",
      "therock_clone", "therock_checkout", "therock_venv", "therock_req",
      "therock_reqtest",
      "inttests_fetch", "hip_install", "hip_fetch_llvm",
      "hipdnn_clone", "hipdnn_sparse_init", "hipdnn_sparse_set", "hipdnn_checkout",
      "hipdnn_configure", "hipdnn_build", "hipdnn_install",
      "iree_clone", "iree_flatcc", "iree_benchmark",
      "fusilli_configure", "fusilli_build", "fusilli_install",
      "presets", "venv_create", "pip_install", "activate_write",
      "finalize">>

SetupOrder ==
    <<"load_config", "reset",
      "therock_clone", "therock_checkout", "therock_venv", "therock_req",
      "therock_reqtest",
      "hip_install", "hip_fetch_llvm", "inttests_fetch",
      "hipdnn_clone", "hipdnn_sparse_init", "hipdnn_sparse_set", "hipdnn_checkout",
      "hipdnn_configure", "hipdnn_build", "hipdnn_install",
      "iree_clone", "iree_flatcc", "iree_benchmark",
      "fusilli_configure", "fusilli_build", "fusilli_install",
      "presets", "venv_create", "pip_install", "activate_write",
      "finalize">>

CiOrder ==
    <<"validate_config", "plugin_configure", "plugin_build", "plugin_install",
      "test_marker", "test_run">>

SetupPositions == {SetupOrder[i] : i \in 1..Len(SetupOrder)}
CiPositions == {CiOrder[i] : i \in 1..Len(CiOrder)}

IndexIn(seq, p) == CHOOSE i \in 1..Len(seq) : seq[i] = p

\* a main that enters the build-and-test branch after every setup
SuccIgnoresCiFlag(p) ==
    IF p \in SetupPositions
    THEN IF p = "finalize" THEN "validate_config"
         ELSE SetupOrder[IndexIn(SetupOrder, p) + 1]
    ELSE IF p = "test_run" THEN "idle"
         ELSE CiOrder[IndexIn(CiOrder, p) + 1]

\* the statement main executes after the one at p returned
Succ(p) ==
    IF p \in SetupPositions
    THEN IF p = "finalize"
         THEN (IF args.ci THEN "validate_config" ELSE "idle")
         ELSE SetupOrder[IndexIn(SetupOrder, p) + 1]
    ELSE IF p = "test_run" THEN "idle"
         ELSE CiOrder[IndexIn(CiOrder, p) + 1]

\* subprocess.run without check=True: the failure is noted and main goes on
OnFailureContinues(p) == Succ(p)

\* subprocess.run(check=True) raising, sys.exit, or an uncaught exception: the
\* process ends
OnFailure(p) == "idle"

Proceed(p) ==
    LET q == Succ(p) IN
    /\ pc' = q
    /\ exit' = IF q = "idle" THEN <<0>> ELSE exit
    /\ args' = IF q = "idle" THEN NoArgs ELSE args

Fatal(p) ==
    LET q == OnFailure(p) IN
    /\ pc' = q
    /\ exit' = <<1>>
    /\ args' = IF q = "idle" THEN NoArgs ELSE args
    /\ config' = IF q = "idle" THEN NoConfig ELSE config
    /\ lastSetupRun' = IF p \in SetupPositions THEN "failed" ELSE lastSetupRun
    /\ lastResetRun' = IF p \in SetupPositions \ {"load_config"}
                       THEN "failed" ELSE lastResetRun

\* one external command at position p whose success turns the cache into c
Command(p, c) ==
    /\ pc = p
    /\ \/ /\ Proceed(p)
          /\ cache' = c
          /\ config' = IF Succ(p) = "idle" THEN NoConfig ELSE config
          /\ UNCHANGED <<lastSetupRun, lastResetRun>>
       \/ /\ Fatal(p)
          /\ UNCHANGED cache
    /\ UNCHANGED <<configFile, cached, pebble, presets, everOk, gateSaw>>

\* versions[k] in main: KeyError when the table lacks k
NeedsKey(p, k) ==
    /\ pc = p
    /\ ~HasKey(config, k)
    /\ Fatal(p)
    /\ UNCHANGED <<configFile, cached, pebble, cache, presets, tmpdirs, everOk, gateSaw>>

-----------------------------------------------------------------------------
(* bump_deps.py: strings are sequences of characters *)

MaxTags == 3
MaxRuns == 2

Digit == {"0", "1", "2", "3", "4", "5", "6", "7", "8", "9"}
DigitSeq == <<"0", "1", "2", "3", "4", "5", "6", "7", "8", "9">>

DigitVal(c) == (CHOOSE i \in 1..10 : DigitSeq[i] = c) - 1

\* a rank that orders digit strings of one or two characters as text
ToIntAsText(ds) ==
    (DigitVal(ds[1]) + 1) * 11 + (IF Len(ds) >= 2 THEN DigitVal(ds[2]) + 1 ELSE 0)

\* int(digits)
RECURSIVE ToInt(_)
ToInt(ds) ==
    IF ds = <<>> THEN 0
    ELSE ToInt(SubSeq(ds, 1, Len(ds) - 1)) * 10 + DigitVal(ds[Len(ds)])

\* the index after the longest run of digits of s that starts at i
RECURSIVE DigitRun(_, _)
DigitRun(s, i) ==
    IF i <= Len(s) /\ s[i] \in Digit THEN DigitRun(s, i + 1) ELSE i

At(s, i, c) == i <= Len(s) /\ s[i] = c

NoMatch == [ok |-> FALSE, groups |-> <<>>, end |-> 0]

\* (\d+)\.(\d+)\.(\d+)rc(\d+) matched at position i of s
MatchRc(s, i) ==
    LET a == DigitRun(s, i)
        b == DigitRun(s, a + 1)
        c == DigitRun(s, b + 1)
        d == DigitRun(s, c + 2)
    IN  IF /\ a > i /\ At(s, a, ".")
           /\ b > a + 1 /\ At(s, b, ".")
           /\ c > b + 1 /\ At(s, c, "r") /\ At(s, c + 1, "c")
           /\ d > c + 2
        THEN [ok |-> TRUE,
              groups |-> <<SubSeq(s, i, a - 1), SubSeq(s, a + 1, b - 1),
                           SubSeq(s, b + 1, c - 1), SubSeq(s, c + 2, d - 1)>>,
              end |-> d]
        ELSE NoMatch

\* a key that looks for the pattern one character further on as well
_version_sort_key_search(version_str) ==
    LET m == IF MatchRc(version_str, 1).ok THEN MatchRc(version_str, 1)
             ELSE MatchRc(version_str, 2) IN
    IF ~m.ok THEN <<0, 0, 0, 0>>
    ELSE <<ToInt(m.groups[1]), ToInt(m.groups[2]), ToInt(m.groups[3]),
           ToInt(m.groups[4])>>

\* re.match(r"(\d+)\.(\d+)\.(\d+)rc(\d+)", version_str)
_version_sort_key(version_str) ==
    LET m == MatchRc(version_str, 1) IN
    IF ~m.ok THEN <<0, 0, 0, 0>>
    ELSE <<ToInt(m.groups[1]), ToInt(m.groups[2]), ToInt(m.groups[3]),
           ToInt(m.groups[4])>>

\* Python's tuple comparison a < b
KeyLess(a, b) ==
    \E i \in 1..4 : a[i] < b[i] /\ \A j \in 1..(i - 1) : a[j] = b[j]

\* re.match(r"refs/tags/iree-(\d+\.\d+\.\d+rc\d+)$", line); the ref prefix is
\* the first element of a line
IsRcTag(ln) ==
    /\ Len(ln) >= 2
    /\ ln[1] = "refs/tags/iree-"
    /\ MatchRc(ln, 2).ok
    /\ MatchRc(ln, 2).end = Len(ln) + 1

TagVersion(ln) == SubSeq(ln, 2, Len(ln))

RECURSIVE RcVersionsOf(_)
RcVersionsOf(lines) ==
    IF lines = <<>> THEN <<>>
    ELSE (IF IsRcTag(Head(lines)) THEN <<TagVersion(Head(lines))>> ELSE <<>>)
            \o RcVersionsOf(Tail(lines))

\* x goes after e in list.sort(key=_version_sort_key), which is stable
SortsAfter(x, e) == ~KeyLess(_version_sort_key(x), _version_sort_key(e))

InsertSorted(sorted, x) ==
    LET n == Cardinality({j \in 1..Len(sorted) : SortsAfter(x, sorted[j])}) IN
    SubSeq(sorted, 1, n) \o <<x>> \o SubSeq(sorted, n + 1, Len(sorted))

RECURSIVE SortFrom(_, _)
SortFrom(sorted, rest) ==
    IF rest = <<>> THEN sorted
    ELSE SortFrom(InsertSorted(sorted, Head(rest)), Tail(rest))

\* rc_versions.sort(key=_version_sort_key)
SortedByKey(versions) == SortFrom(<<>>, versions)

Reverse(s) == [i \in 1..Len(s) |-> s[Len(s) + 1 - i]]

LastN(s, n) == SubSeq(s, IF Len(s) > n THEN Len(s) - n + 1 ELSE 1, Len(s))

\* rc_versions[-3:][::-1]
CandidatesLastThree(rc_versions) == Reverse(LastN(rc_versions, 3))

\* rc_versions[-2:][::-1]
Candidates(rc_versions) == Reverse(LastN(rc_versions, 2))

IsPrefix(a, b) == Len(a) <= Len(b) /\ SubSeq(b, 1, Len(a)) = a

\* needle in content, where the page lists one "iree_base_compiler-<version>-..."
\* link per published wheel
NeedleInContent(version, page) == \E p \in page : IsPrefix(version, p)

verify_iree_wheel(version, page, urlerror) ==
    IF urlerror THEN FALSE ELSE NeedleInContent(version, page)

V_3_9_0rc7 == <<"3", ".", "9", ".", "0", "r", "c", "7">>
V_3_11_0rc1 == <<"3", ".", "1", "1", ".", "0", "r", "c", "1">>
V_3_11_0rc01 == <<"3", ".", "1", "1", ".", "0", "r", "c", "0", "1">>
V_3_11_0rc10 == <<"3", ".", "1", "1", ".", "0", "r", "c", "1", "0">>

\* stdout lines of "gh api repos/iree-org/iree/git/refs/tags"
TagLines ==
    {<<"refs/tags/iree-">> \o V_3_9_0rc7,
     <<"refs/tags/iree-">> \o V_3_11_0rc1,
     <<"refs/tags/iree-">> \o V_3_11_0rc01,
     <<"refs/tags/iree-">> \o V_3_11_0rc10,
     <<"refs/tags/iree-">> \o <<"3", ".", "1", "1", ".", "0">>,
     <<"refs/tags/iree-">> \o V_3_11_0rc10 \o <<"-", "x">>}

RECURSIVE ListingsOf(_, _)
ListingsOf(pool, n) ==
    IF n = 0 THEN {<<>>}
    ELSE LET shorter == ListingsOf(pool, n - 1) IN
         shorter \cup
            {Append(l, t) : l \in {s \in shorter : Len(s) = n - 1},
                            t \in pool}

NoRepeat(l) == \A i, j \in 1..Len(l) : l[i] = l[j] => i = j

TagListings == {l \in ListingsOf(TagLines, MaxTags) : NoRepeat(l)}

\* wheels the pip release links page may list
PublishedWheels == {V_3_9_0rc7, V_3_11_0rc10}

-----------------------------------------------------------------------------
(* TheRock nightlies *)

TheRockPrefix == <<"7", ".", "1", "2", ".", "0", "a">>

IsLeap(y) == (y % 4 = 0 /\ y % 100 # 0) \/ y % 400 = 0

DaysInMonth(y, m) ==
    IF m = 2 THEN (IF IsLeap(y) THEN 29 ELSE 28)
    ELSE IF m \in {4, 6, 9, 11} THEN 30 ELSE 31

\* d - timedelta(days=1), dates as <<year, month, day>>
PrevDay(d) ==
    IF d[3] > 1 THEN <<d[1], d[2], d[3] - 1>>
    ELSE IF d[2] > 1 THEN <<d[1], d[2] - 1, DaysInMonth(d[1], d[2] - 1)>>
    ELSE <<d[1] - 1, 12, 31>>

RECURSIVE DaysBefore(_, _)
DaysBefore(d, n) == IF n = 0 THEN d ELSE DaysBefore(PrevDay(d), n - 1)

\* the decimal digits of n, zero-padded to width
RECURSIVE Padded(_, _)
Padded(n, width) ==
    IF width = 0 THEN <<>>
    ELSE Append(Padded(n \div 10, width - 1), DigitSeq[(n % 10) + 1])

\* date.strftime("%Y%m%d")
strftime(d) == Padded(d[1], 4) \o Padded(d[2], 2) \o Padded(d[3], 2)

AllDigits(s) == \A i \in 1..Len(s) : s[i] \in Digit

\* a pattern that also takes an empty prefix: (.*?)(\d{8})$
TheRockMatchEmptyPrefix(version) ==
    IF Len(version) >= 8 /\ AllDigits(SubSeq(version, Len(version) - 7, Len(version)))
    THEN [ok |-> TRUE, prefix |-> SubSeq(version, 1, Len(version) - 8)]
    ELSE [ok |-> FALSE, prefix |-> <<>>]

\* re.match(r"(.+?)(\d{8})$", current_version)
TheRockMatch(version) ==
    IF Len(version) >= 9 /\ AllDigits(SubSeq(version, Len(version) - 7, Len(version)))
    THEN [ok |-> TRUE, prefix |-> SubSeq(version, 1, Len(version) - 8)]
    ELSE [ok |-> FALSE, prefix |-> <<>>]

\* for days_ago in range(3)
ProbeDays == 3

\* datetime.now(timezone.utc) of a run
Todays == {<<2026, 3, 1>>, <<2026, 3, 2>>}

\* what the HEAD request can come to: status 200, another status, or an
\* URLError / HTTPError
CdnOutcomes == {"200", "other", "error"}

-----------------------------------------------------------------------------
(* version.json: the text is a format and the members in order *)

json_loads(f) ==
    [ok |-> f.exists /\ f.fmt # "garbage",
     dict |-> IF f.exists /\ f.fmt # "garbage" THEN f.entries ELSE <<>>]

\* json.dumps(data, indent=2) + "\n"
json_dumps(d) == [exists |-> TRUE, fmt |-> "indent2", entries |-> d]

DictHas(d, k) == \E i \in 1..Len(d) : d[i][1] = k
DictGet(d, k) == d[CHOOSE i \in 1..Len(d) : d[i][1] = k][2]
\* an assignment that starts a new dict
DictSetAlone(d, k, v) == <<<<k, v>>>>

DictSet(d, k, v) == [i \in 1..Len(d) |-> IF d[i][1] = k THEN <<k, v>> ELSE d[i]]

NoVersionFile == [exists |-> FALSE, fmt |-> "garbage", entries |-> <<>>]

VersionJson(fmt, iree, therock) ==
    [exists |-> TRUE, fmt |-> fmt,
     entries |-> <<<<"iree-version", iree>>, <<"note", <<"p", "i", "n", "n", "e", "d">>>>,
                   <<"therock-version", therock>>>>]

PinnedIree == {V_3_9_0rc7, V_3_11_0rc10}

PinnedTheRock ==
    {TheRockPrefix \o <<"2", "0", "2", "6", "0", "2", "2", "8">>,
     TheRockPrefix \o <<"2", "0", "2", "6", "0", "3", "0", "2">>,
     <<"2", "0", "2", "6", "0", "2", "2", "8">>,
     <<"7", ".", "1", "2", ".", "0", "r", "c", "1">>}

VersionFiles ==
    {VersionJson("indent2", i, t) : i \in PinnedIree, t \in PinnedTheRock}
        \cup {VersionJson("compact", V_3_9_0rc7, TheRockPrefix \o <<"2", "0", "2", "6", "0", "2", "2", "8">>)}
        \cup {NoVersionFile,
              [exists |-> TRUE, fmt |-> "garbage", entries |-> <<>>],
              [exists |-> TRUE, fmt |-> "indent2",
               entries |-> <<<<"therock-version", TheRockPrefix \o <<"2", "0", "2", "6", "0", "2", "2", "8">>>>>>],
              [exists |-> TRUE, fmt |-> "indent2",
               entries |-> <<<<"iree-version", V_3_9_0rc7>>>>]}

-----------------------------------------------------------------------------
(* bump_deps.py: main *)

NoVersion == <<>>
NoDate == <<0, 0, 0>>
NoPair == <<NoVersion, NoVersion>>

NoLocals ==
    [data |-> <<>>, current_iree |-> NoVersion, current_therock |-> NoVersion,
     rc_versions |-> <<>>, candidates |-> <<>>, i |-> 0,
     latest_iree |-> NoVersion, latest_therock |-> NoVersion,
     prefix |-> <<>>, today |-> NoDate, days_ago |-> 0,
     k |-> 0, github_env |-> FALSE]

NoHistory ==
    [runs |-> 0, tags |-> <<>>, wheelProbes |-> <<>>, cdnProbes |-> <<>>,
     writes |-> 0, fatalAt |-> "", last |-> NoPair, prev |-> NoPair,
     prevWrites |-> 0, start |-> NoVersionFile]

RInit ==
    /\ versionFile = VersionJson("indent2", V_3_9_0rc7, TheRockPrefix \o <<"2", "0", "2", "6", "0", "2", "2", "8">>)
    /\ rpc = "idle"
    /\ loc = NoLocals
    /\ rexit = <<>>
    /\ envFile = <<>>
    /\ stdout = <<>>
    /\ hist = NoHistory

\* a workflow run, or a developer, starts bump_deps.py
RunResolver ==
    /\ rpc = "idle"
    /\ hist.runs < MaxRuns
    /\ rpc' = "read_version_json"
    /\ loc' = NoLocals
    /\ rexit' = <<>>
    /\ envFile' = <<>>
    /\ stdout' = <<>>
    /\ hist' = [NoHistory EXCEPT !.runs = hist.runs + 1, !.prev = hist.last,
                                 !.prevWrites = hist.writes,
                                 !.start = versionFile]
    /\ UNCHANGED <<versionFile, ovars, kvars, mvars, cvars>>

\* an error path that prints the message and lets main go on with what it has
RFatalFallsBack(h, where) ==
    /\ rpc' = "find_latest_therock_version"
    /\ rexit' = rexit
    /\ hist' = [h EXCEPT !.fatalAt = where]

\* sys.exit(1), or an exception nobody catches
RFatal(h, where) ==
    /\ rpc' = "idle"
    /\ rexit' = <<1>>
    /\ hist' = [h EXCEPT !.fatalAt = where, !.last = NoPair]

\* data = read_version_json(); current_iree = data["iree-version"];
\* current_therock = data["therock-version"]
read_version_json ==
    /\ rpc = "read_version_json"
    /\ LET j == json_loads(versionFile) IN
       IF j.ok /\ DictHas(j.dict, "iree-version") /\ DictHas(j.dict, "therock-version")
       THEN /\ loc' = [loc EXCEPT !.data = j.dict,
                                  !.current_iree = DictGet(j.dict, "iree-version"),
                                  !.current_therock = DictGet(j.dict, "therock-version")]
            /\ rpc' = "gh_api_tags"
            /\ UNCHANGED <<rexit, hist>>
       ELSE /\ RFatal(hist, "read_version_json")
            /\ UNCHANGED loc
    /\ UNCHANGED <<versionFile, envFile, stdout, ovars, kvars, mvars, cvars>>

find_latest_iree_with_wheel ==
    /\ \/ /\ rpc = "gh_api_tags"
          /\ \E returncode \in {0, 1}, lines \in TagListings :
                LET rc_versions == RcVersionsOf(lines)
                    h == [hist EXCEPT !.tags = lines]
                IN  IF returncode # 0
                    THEN /\ lines = <<>>
                         /\ RFatal(hist, "gh_api_tags")
                         /\ UNCHANGED loc
                    ELSE IF rc_versions = <<>>
                    THEN /\ RFatal(h, "no_rc_tags")
                         /\ UNCHANGED loc
                    ELSE /\ loc' = [loc EXCEPT
                                       !.rc_versions = SortedByKey(rc_versions),
                                       !.candidates =
                                           Candidates(SortedByKey(rc_versions)),
                                       !.i = 1]
                         /\ rpc' = "verify_iree_wheel"
                         /\ hist' = h
                         /\ UNCHANGED rexit
       \/ /\ rpc = "verify_iree_wheel"
          /\ \E page \in SUBSET PublishedWheels, urlerror \in BOOLEAN :
                LET candidate == loc.candidates[loc.i]
                    found == verify_iree_wheel(candidate, page, urlerror)
                    h == [hist EXCEPT !.wheelProbes =
                            Append(@, [version |-> candidate, page |-> page,
                                       urlerror |-> urlerror, found |-> found])]
                IN  /\ urlerror => page = {}
                    /\ IF found
                       THEN /\ loc' = [loc EXCEPT !.latest_iree = candidate]
                            /\ rpc' = "find_latest_therock_version"
                            /\ hist' = h
                            /\ UNCHANGED rexit
                       ELSE IF loc.i < Len(loc.candidates)
                       THEN /\ loc' = [loc EXCEPT !.i = @ + 1]
                            /\ hist' = h
                            /\ UNCHANGED <<rpc, rexit>>
                       ELSE /\ RFatal(h, "no_wheel")
                            /\ UNCHANGED loc
    /\ UNCHANGED <<versionFile, envFile, stdout, ovars, kvars, mvars, cvars>>

TheRockCandidate(prefix, today, days_ago) == prefix \o strftime(DaysBefore(today, days_ago))

find_latest_therock_version ==
    /\ \/ /\ rpc = "find_latest_therock_version"
          /\ LET m == TheRockMatch(loc.current_therock) IN
             IF ~m.ok
             THEN /\ loc' = [loc EXCEPT !.latest_therock = loc.current_therock,
                                        !.k = 1]
                  /\ rpc' = "set_github_env"
             ELSE /\ \E today \in Todays :
                        loc' = [loc EXCEPT !.prefix = m.prefix, !.today = today,
                                           !.days_ago = 0]
                  /\ rpc' = "cdn_probe"
          /\ hist' = [hist EXCEPT !.tags = <<>>, !.wheelProbes = <<>>]
       \/ /\ rpc = "cdn_probe"
          /\ \E outcome \in CdnOutcomes :
                LET candidate == TheRockCandidate(loc.prefix, loc.today, loc.days_ago)
                IN  /\ hist' = [hist EXCEPT !.cdnProbes =
                                    Append(@, [candidate |-> candidate,
                                               outcome |-> outcome])]
                    /\ IF outcome = "200"
                       THEN /\ loc' = [loc EXCEPT !.latest_therock = candidate, !.k = 1]
                            /\ rpc' = "set_github_env"
                       ELSE IF loc.days_ago + 1 < ProbeDays
                       THEN /\ loc' = [loc EXCEPT !.days_ago = @ + 1]
                            /\ UNCHANGED rpc
                       ELSE /\ loc' = [loc EXCEPT
                                          !.latest_therock = loc.current_therock,
                                          !.k = 1]
                            /\ rpc' = "set_github_env"
    /\ UNCHANGED <<versionFile, rexit, envFile, stdout, ovars, kvars, mvars, cvars>>

\* a main that exports the resolved versions only
ExportPairsLatestOnly(l) ==
    <<<<"LATEST_IREE_VERSION", l.latest_iree>>,
      <<"LATEST_THEROCK_VERSION", l.latest_therock>>>>

ExportPairs(l) ==
    <<<<"CURRENT_IREE_VERSION", l.current_iree>>,
      <<"CURRENT_THEROCK_VERSION", l.current_therock>>,
      <<"LATEST_IREE_VERSION", l.latest_iree>>,
      <<"LATEST_THEROCK_VERSION", l.latest_therock>>>>

\* the four set_github_env calls of main, one a step
set_github_env ==
    /\ rpc = "set_github_env"
    /\ \E github_env \in BOOLEAN :
          /\ loc.k > 1 => github_env = loc.github_env
          /\ envFile' = IF github_env THEN Append(envFile, ExportPairs(loc)[loc.k])
                        ELSE envFile
          /\ loc' = [loc EXCEPT !.github_env = github_env, !.k = @ + 1,
                                !.prefix = <<>>, !.today = NoDate, !.days_ago = 0]
    /\ stdout' = Append(stdout, ExportPairs(loc)[loc.k])
    /\ rpc' = IF loc.k = Len(ExportPairs(loc)) THEN "compare_and_update"
              ELSE "set_github_env"
    /\ hist' = [hist EXCEPT !.cdnProbes = <<>>]
    /\ UNCHANGED <<versionFile, rexit, ovars, kvars, mvars, cvars>>

\* a main that rewrites version.json on every run
NeedsWriteAlways(current_iree, latest_iree, current_therock, latest_therock) == TRUE

\* iree_changed or therock_changed
NeedsWrite(current_iree, latest_iree, current_therock, latest_therock) ==
    current_iree # latest_iree \/ current_therock # latest_therock

UpdatedData(l) ==
    LET d1 == IF l.current_iree # l.latest_iree
              THEN DictSet(l.data, "iree-version", l.latest_iree) ELSE l.data
    IN  IF l.current_therock # l.latest_therock
        THEN DictSet(d1, "therock-version", l.latest_therock) ELSE d1

\* step 4 of main: compare, and write_version_json(data) when something changed
compare_and_update ==
    /\ rpc = "compare_and_update"
    /\ IF NeedsWrite(loc.current_iree, loc.latest_iree,
                     loc.current_therock, loc.latest_therock)
       THEN /\ versionFile' = json_dumps(UpdatedData(loc))
            /\ loc' = [loc EXCEPT !.data = UpdatedData(loc)]
            /\ hist' = [hist EXCEPT !.writes = @ + 1,
                                    !.last = <<loc.latest_iree, loc.latest_therock>>]
       ELSE /\ hist' = [hist EXCEPT !.last = <<loc.latest_iree, loc.latest_therock>>]
            /\ UNCHANGED <<versionFile, loc>>
    /\ rpc' = "idle"
    /\ rexit' = <<0>>
    /\ UNCHANGED <<envFile, stdout, ovars, kvars, mvars, cvars>>

-----------------------------------------------------------------------------
(* main --setup *)

\* no call of _version_sort_key under way
NoInput == [text |-> <<>>, kind |-> "nomatch", denotes |-> <<>>]

KInit ==
    /\ sortArgs = <<NoInput, NoInput>>
    /\ sortKeys = <<>>

\* the artifact scripts not run outside a setup
MInit ==
    /\ mergeTree = {}
    /\ mergeLog = <<>>

\* no second process
CInit ==
    /\ cpc = "idle"
    /\ cexit = <<>>
    /\ cgate = NoGate
    /\ ctmp = "absent"

OInit ==
    /\ configFile = File(FullText(TagA))
    /\ cached = NoFile
    /\ pebble = FALSE
    /\ cache = {}
    /\ presets = FALSE
    /\ tmpdirs = [d \in {"fusilli", "plugin"} |-> "absent"]
    /\ pc = "idle"
    /\ args = NoArgs
    /\ config = NoConfig
    /\ exit = <<>>
    /\ lastSetupRun = "none"
    /\ lastResetRun = "none"
    /\ everOk = FALSE
    /\ gateSaw = NoGate

Init == OInit /\ RInit /\ KInit /\ MInit /\ CInit

\* the operator starts ThePebble.py with the flags a
Invoke(a) ==
    /\ UNCHANGED <<rvars, kvars, mvars, cvars>>
    /\ pc = "idle"
    /\ IF ~a.setup /\ ~a.ci
       THEN /\ pc' = "idle"
            /\ exit' = <<1>>
            /\ args' = NoArgs
       ELSE /\ pc' = IF a.setup THEN "load_config" ELSE "validate_config"
            /\ exit' = <<>>
            /\ args' = a
    /\ lastSetupRun' = IF a.setup THEN "running" ELSE lastSetupRun
    /\ gateSaw' = NoGate
    /\ UNCHANGED <<configFile, cached, pebble, cache, presets, tmpdirs, config,
                   lastResetRun, everOk>>

\* somebody edits, breaks or removes thepebble_config.toml
EditConfig(f) ==
    /\ UNCHANGED <<rvars, kvars, mvars, cvars>>
    /\ f # configFile
    /\ configFile' = f
    /\ UNCHANGED <<cached, pebble, cache, presets, tmpdirs, pc, args, config, exit,
                   lastSetupRun, lastResetRun, everOk, gateSaw>>

\* config = load_config(); versions = config["versions"]
main_load_config ==
    /\ UNCHANGED <<rvars, kvars, mvars, cvars>>
    /\ pc = "load_config"
    /\ LET c == load_config IN
       IF c.ok /\ HasTable(c, "versions")
       THEN /\ config' = c
            /\ Proceed("load_config")
            /\ UNCHANGED <<lastSetupRun, lastResetRun>>
       ELSE Fatal("load_config")
    /\ UNCHANGED <<configFile, cached, pebble, cache, presets, tmpdirs, everOk, gateSaw>>

\* if PEBBLE_DIR.exists(): shutil.rmtree(PEBBLE_DIR); PEBBLE_DIR.mkdir(...)
main_reset ==
    /\ UNCHANGED <<rvars, kvars, mvars, cvars>>
    /\ pc = "reset"
    /\ LET st == IF pebble THEN StartFresh([cache |-> cache, cached |-> cached])
                 ELSE [cache |-> cache, cached |-> cached] IN
       /\ cache' = st.cache
       /\ cached' = st.cached
    /\ pebble' = TRUE
    /\ Proceed("reset")
    /\ lastResetRun' = "running"
    /\ UNCHANGED <<configFile, presets, tmpdirs, config, lastSetupRun, everOk, gateSaw>>

setup_therock ==
    /\ UNCHANGED <<rvars, kvars, mvars, cvars>>
    /\ \/ NeedsKey("therock_clone", "therock_git_ref")
       \/ /\ HasKey(config, "therock_git_ref")
          /\ Command("therock_clone", Add(cache, "TheRock", "src", <<"HEAD">>))
       \/ Command("therock_checkout",
                  Add(cache, "TheRock", "src", Get(config, "therock_git_ref")))
       \/ Command("therock_venv", Add(cache, "TheRock", ".venv", Unversioned))
       \/ Command("therock_req", Add(cache, "TheRock", "requirements", Unversioned))
       \/ Command("therock_reqtest",
                  Add(cache, "TheRock", "requirements-test", Unversioned))
    /\ UNCHANGED tmpdirs

install_hip ==
    /\ UNCHANGED <<rvars, kvars, mvars, cvars>>
    /\ \/ NeedsKey("hip_install", "hip_run_id")
       \/ /\ HasKey(config, "hip_run_id")
          /\ Command("hip_install",
                     ReplaceInstall(cache, "dist", "hip", Get(config, "hip_run_id")))
       \/ Command("hip_fetch_llvm",
                  FlattenFetch(cache, "dist", "amd-llvm_dev", Get(config, "hip_run_id")))
    /\ UNCHANGED tmpdirs

install_hipdnn_integration_tests ==
    /\ UNCHANGED <<rvars, kvars, mvars, cvars>>
    /\ \/ NeedsKey("inttests_fetch", "hipdnn_integration_tests_run_id")
       \/ /\ HasKey(config, "hipdnn_integration_tests_run_id")
          /\ Command("inttests_fetch",
                     FlattenFetch(cache, "dist", "hipdnn-integration-tests_test",
                                  Get(config, "hipdnn_integration_tests_run_id")))
    /\ UNCHANGED tmpdirs

build_hipdnn ==
    /\ UNCHANGED <<rvars, kvars, mvars, cvars>>
    /\ \/ NeedsKey("hipdnn_clone", "hipdnn_git_ref")
       \/ /\ HasKey(config, "hipdnn_git_ref")
          /\ Command("hipdnn_clone", Add(cache, "rocm-libraries", "src", <<"none">>))
       \/ Command("hipdnn_sparse_init", Add(cache, "rocm-libraries", "sparse", <<"cone">>))
       \/ Command("hipdnn_sparse_set",
                  Add(cache, "rocm-libraries", "sparse", <<"projects/hipdnn">>))
       \/ Command("hipdnn_checkout",
                  Add(cache, "rocm-libraries", "src", Get(config, "hipdnn_git_ref")))
       \/ Command("hipdnn_configure",
                  Add(cache, "rocm-libraries", "build", <<"configured">>))
       \/ Command("hipdnn_build", Add(cache, "rocm-libraries", "build", <<"built">>))
       \/ Command("hipdnn_install",
                  CMakeInstall(cache, "hipdnn", Get(config, "hipdnn_git_ref")))
    /\ UNCHANGED tmpdirs

setup_iree ==
    /\ UNCHANGED <<rvars, kvars, mvars, cvars>>
    /\ \/ NeedsKey("iree_clone", "iree_git_tag")
       \/ /\ HasKey(config, "iree_git_tag")
          /\ Command("iree_clone", Add(cache, "iree", "src", Get(config, "iree_git_tag")))
       \/ Command("iree_flatcc", Add(cache, "iree", "third_party/flatcc", Unversioned))
       \/ Command("iree_benchmark",
                  Add(cache, "iree", "third_party/benchmark", Unversioned))
    /\ UNCHANGED tmpdirs

\* configure, build, install in a tempfile.mkdtemp() directory that is removed
\* after the install only
InTempDirLeftBehind(d, first, second, third, installed) ==
    /\ \/ /\ Command(first, cache)
          /\ tmpdirs' = [tmpdirs EXCEPT ![d] = "configured"]
       \/ /\ Command(second, cache)
          /\ tmpdirs' = [tmpdirs EXCEPT ![d] = "built"]
       \/ /\ Command(third, installed)
          /\ tmpdirs' = [tmpdirs EXCEPT ![d] = IF exit' = <<1>> THEN "built"
                                               ELSE "absent"]

\* configure, build, install inside "with tempfile.TemporaryDirectory()": the
\* directory is removed when the block is left, by return or by exception
InTempDir(d, first, second, third, installed) ==
    /\ \/ /\ Command(first, cache)
          /\ tmpdirs' = [tmpdirs EXCEPT ![d] = IF pc' = second THEN "configured"
                                               ELSE "absent"]
       \/ /\ Command(second, cache)
          /\ tmpdirs' = [tmpdirs EXCEPT ![d] = IF pc' = third THEN "built"
                                               ELSE "absent"]
       \/ /\ Command(third, installed)
          /\ tmpdirs' = [tmpdirs EXCEPT ![d] = "absent"]

build_fusilli ==
    /\ UNCHANGED <<rvars, kvars, mvars, cvars>>
    /\ InTempDir("fusilli", "fusilli_configure", "fusilli_build", "fusilli_install",
                 CMakeInstall(cache, "fusilli", Unversioned))

generate_cmake_user_presets ==
    /\ UNCHANGED <<rvars, kvars, mvars, cvars>>
    /\ pc = "presets"
    /\ presets' = TRUE
    /\ Proceed("presets")
    /\ UNCHANGED <<configFile, cached, pebble, cache, tmpdirs, config,
                   lastSetupRun, lastResetRun, everOk, gateSaw>>

generate_local_environment_setup ==
    /\ UNCHANGED <<rvars, kvars, mvars, cvars>>
    /\ \/ Command("venv_create", Add(cache, ".venv", "env", Unversioned))
       \/ Command("pip_install",
                  Add(cache, ".venv", "iree-base-compiler",
                      PipVersion(Get(config, "iree_git_tag"))))
       \/ /\ pc = "activate_write"
          /\ cache' = Add(cache, ".", "activate", Unversioned)
          /\ Proceed("activate_write")
          /\ UNCHANGED <<configFile, cached, pebble, presets, config,
                         lastSetupRun, lastResetRun, everOk, gateSaw>>
    /\ UNCHANGED tmpdirs

\* shutil.copy(config_src, CACHED_CONFIG)
main_finalize ==
    /\ UNCHANGED <<rvars, kvars, mvars, cvars>>
    /\ pc = "finalize"
    /\ IF configFile.exists
       THEN /\ cached' = configFile
            /\ Proceed("finalize")
            /\ config' = IF Succ("finalize") = "idle" THEN NoConfig ELSE config
            /\ lastSetupRun' = "ok"
            /\ lastResetRun' = "ok"
            /\ everOk' = TRUE
       ELSE /\ Fatal("finalize")
            /\ UNCHANGED <<cached, everOk>>
    /\ UNCHANGED <<configFile, pebble, cache, presets, tmpdirs, gateSaw>>

-----------------------------------------------------------------------------
(* main --ci-install-and-test-fusilli-plugin *)

\* a gate comparing the two files byte by byte
GatePassesTextual(cur, fp) == fp.exists /\ cur.exists /\ cur.text = fp.text

\* a gate that lets a run through when there is nothing to compare against
GatePassesWithoutFingerprint(cur, fp) ==
    \/ ~fp.exists
    \/ /\ tomllib_load(cur).ok
       /\ tomllib_load(fp).ok
       /\ ConfigEq(tomllib_load(cur), tomllib_load(fp))

\* TRUE when validate_config returns, FALSE when it ends the process
GatePasses(cur, fp) ==
    /\ fp.exists
    /\ tomllib_load(cur).ok
    /\ tomllib_load(fp).ok
    /\ ConfigEq(tomllib_load(cur), tomllib_load(fp))

validate_config ==
    /\ UNCHANGED <<rvars, kvars, mvars, cvars>>
    /\ pc = "validate_config"
    /\ IF GatePasses(configFile, cached)
       THEN /\ Proceed("validate_config")
            /\ UNCHANGED <<config, lastSetupRun, lastResetRun>>
       ELSE Fatal("validate_config")
    /\ gateSaw' = [ran |-> TRUE, cur |-> configFile, fp |-> cached,
                   passed |-> pc' = "plugin_configure"]
    /\ UNCHANGED <<configFile, cached, pebble, cache, presets, tmpdirs, everOk>>

build_fusilli_plugin ==
    /\ UNCHANGED <<rvars, kvars, mvars, cvars>>
    /\ InTempDir("plugin", "plugin_configure", "plugin_build", "plugin_install",
                 CMakeInstall(cache, "fusilli_plugin", Unversioned))

\* config = load_config(); iree_tag_file.write_text(pip_version); then the
\* test script of TheRock
test_fusilli_plugin ==
    /\ UNCHANGED <<rvars, kvars, mvars, cvars>>
    /\ \/ /\ pc = "test_marker"
          /\ LET c == load_config IN
             IF c.ok /\ HasTable(c, "versions") /\ HasKey(c, "iree_git_tag")
             THEN /\ cache' = Add(cache, "dist", "iree_tag_for_pip.txt",
                                  PipVersion(Get(c, "iree_git_tag")))
                  /\ Proceed("test_marker")
                  /\ UNCHANGED <<config, lastSetupRun, lastResetRun>>
             ELSE /\ Fatal("test_marker")
                  /\ UNCHANGED cache
          /\ UNCHANGED <<configFile, cached, pebble, presets, everOk, gateSaw>>
       \/ Command("test_run", cache)
    /\ UNCHANGED tmpdirs

-----------------------------------------------------------------------------

Next ==
    \/ \E a \in ArgSets : Invoke(a)
    \/ \E f \in ConfigFiles : EditConfig(f)
    \/ main_load_config
    \/ main_reset
    \/ setup_therock
    \/ install_hip
    \/ install_hipdnn_integration_tests
    \/ build_hipdnn
    \/ setup_iree
    \/ build_fusilli
    \/ generate_cmake_user_presets
    \/ generate_local_environment_setup
    \/ main_finalize
    \/ validate_config
    \/ build_fusilli_plugin
    \/ test_fusilli_plugin

Spec == Init /\ [][Next]_vars

RNext ==
    \/ RunResolver
    \/ read_version_json
    \/ find_latest_iree_with_wheel
    \/ find_latest_therock_version
    \/ set_github_env
    \/ compare_and_update

\* bump_deps.py alone, started on any version.json
InitResolver ==
    /\ OInit
    /\ versionFile \in VersionFiles
    /\ rpc = "idle"
    /\ loc = NoLocals
    /\ rexit = <<>>
    /\ envFile = <<>>
    /\ stdout = <<>>
    /\ hist = NoHistory
    /\ KInit
    /\ MInit
    /\ CInit

SpecResolver == InitResolver /\ [][RNext]_vars

-----------------------------------------------------------------------------
(* _version_sort_key on its own *)

\* str(n) for the numbers used here
Dec(n) == Padded(n, IF n < 10 THEN 1 ELSE 2)

\* the numbers a component of a version is drawn from
Components == {0, 9, 10}

\* f"{major}.{minor}.{patch}rc{index}", the index written with at least
\* width digits
VersionText(c, width) ==
    Dec(c[1]) \o <<".">> \o Dec(c[2]) \o <<".">> \o Dec(c[3]) \o <<"r", "c">>
        \o (IF width > Len(Dec(c[4])) THEN Padded(c[4], width) ELSE Dec(c[4]))

\* strings of the form major.minor.patch rc index, with what they denote
ValidInputs ==
    {[text |-> VersionText(c, w), kind |-> "valid", denotes |-> c] :
        c \in Components \X Components \X Components \X Components, w \in {1, 2}}

\* a version followed by other characters
PrefixedInputs ==
    {[text |-> v.text \o <<"-", "x">>, kind |-> "prefixed", denotes |-> v.denotes] :
        v \in {u \in ValidInputs : u.denotes[1] = 0 /\ u.denotes[2] = 0}}

\* strings that do not start with a version
MalformedTexts ==
    {<<>>,
     <<"3", ".", "1", "1", ".", "0">>,
     <<"v", "3", ".", "1", "1", ".", "0", "r", "c", "1">>,
     <<"3", ".", "1", "1", "r", "c", "1">>,
     <<"3", ".", "1", "1", ".", "0", "r", "c">>,
     <<"3", ".", "1", "1", ".", "0", "-", "r", "c", "1">>,
     <<"3", ".", ".", "0", "r", "c", "1">>,
     <<"r", "c", "1">>,
     <<"3", ".", "1", "1", ".", "0", "R", "C", "1">>,
     <<" ", "3", ".", "1", "1", ".", "0", "r", "c", "1">>}

MalformedInputs ==
    {[text |-> t, kind |-> "nomatch", denotes |-> <<>>] : t \in MalformedTexts}

SortKeyInputs == ValidInputs \cup PrefixedInputs \cup MalformedInputs

\* _version_sort_key(a), _version_sort_key(b), as list.sort evaluates its key
sort_key_calls ==
    /\ sortKeys = <<>>
    /\ sortKeys' = <<_version_sort_key(sortArgs[1].text),
                     _version_sort_key(sortArgs[2].text)>>
    /\ UNCHANGED <<sortArgs, ovars, rvars, mvars, cvars>>

\* _version_sort_key called on any two strings
InitSortKey ==
    /\ OInit
    /\ RInit
    /\ sortArgs \in SortKeyInputs \X SortKeyInputs
    /\ sortKeys = <<>>
    /\ MInit
    /\ CInit

SpecSortKey == InitSortKey /\ [][sort_key_calls]_vars

-----------------------------------------------------------------------------
(* the two artifact scripts of TheRock on one output directory *)

\* what the output directory and its neighbour may hold before the scripts run
StartEntries ==
    {<<"dist", "stale", <<"old">>>>, <<"dist", "hip", <<"old">>>>,
     <<"dist", "amd-llvm_dev", <<"old">>>>, <<"TheRock", "src", <<"HEAD">>>>,
     <<"TheRock", ".venv", Unversioned>>}

\* the artifacts fetch_artifacts.py is asked for
FlattenNames == {"amd-llvm_dev", "hipdnn-integration-tests_test"}

\* --run-id values
RunIds == {<<"run1">>, <<"run2">>}

Ran(mode) == \E i \in 1..Len(mergeLog) : mergeLog[i].mode = mode

\* install_rocm_from_artifacts.py --run-id r --output-dir INSTALL_DIR
install_rocm_from_artifacts(r) ==
    /\ ~Ran("replace")
    /\ mergeTree' = ReplaceInstall(mergeTree, "dist", "hip", r)
    /\ mergeLog' = Append(mergeLog, [mode |-> "replace", name |-> "hip", ver |-> r])
    /\ UNCHANGED <<ovars, rvars, kvars, cvars>>

\* fetch_artifacts.py --run-id r --output-dir INSTALL_DIR --flatten n
fetch_artifacts(n, r) ==
    /\ ~Ran("flatten")
    /\ mergeTree' = FlattenFetch(mergeTree, "dist", n, r)
    /\ mergeLog' = Append(mergeLog, [mode |-> "flatten", name |-> n, ver |-> r])
    /\ UNCHANGED <<ovars, rvars, kvars, cvars>>

MNext ==
    \/ \E r \in RunIds : install_rocm_from_artifacts(r)
    \/ \E n \in FlattenNames, r \in RunIds : fetch_artifacts(n, r)

\* the scripts alone, started on any tree
InitMerge ==
    /\ OInit
    /\ RInit
    /\ KInit
    /\ CInit
    /\ mergeTree \in SUBSET StartEntries
    /\ mergeLog = <<>>

SpecMerge == InitMerge /\ [][MNext]_vars

-----------------------------------------------------------------------------
(* a second ThePebble.py --ci-install-and-test-fusilli-plugin process on the
   same PEBBLE_DIR *)

ovarsButCache == <<configFile, cached, pebble, presets, tmpdirs, pc, args, config,
                   exit, lastSetupRun, lastResetRun, everOk, gateSaw>>

SecondSucc(p) ==
    IF p = "test_run" THEN "idle" ELSE CiOrder[IndexIn(CiOrder, p) + 1]

SecondProceed(p) ==
    /\ cpc' = SecondSucc(p)
    /\ cexit' = IF SecondSucc(p) = "idle" THEN <<0>> ELSE cexit

SecondFatal ==
    /\ cpc' = "idle"
    /\ cexit' = <<1>>

\* one external command of the second process
SecondCommand(p, c) ==
    /\ cpc = p
    /\ \/ /\ SecondProceed(p)
          /\ cache' = c
       \/ /\ SecondFatal
          /\ UNCHANGED cache
    /\ UNCHANGED cgate

second_invoke ==
    /\ cpc = "idle"
    /\ cpc' = "validate_config"
    /\ cexit' = <<>>
    /\ cgate' = NoGate
    /\ UNCHANGED <<ctmp, ovars, rvars, kvars, mvars>>

second_validate_config ==
    /\ cpc = "validate_config"
    /\ IF GatePasses(configFile, cached)
       THEN SecondProceed("validate_config")
       ELSE SecondFatal
    /\ cgate' = [ran |-> TRUE, cur |-> configFile, fp |-> cached,
                 passed |-> cpc' = "plugin_configure"]
    /\ UNCHANGED <<ctmp, ovars, rvars, kvars, mvars>>

second_build_fusilli_plugin ==
    /\ \/ /\ SecondCommand("plugin_configure", cache)
          /\ ctmp' = IF cpc' = "plugin_build" THEN "configured" ELSE "absent"
       \/ /\ SecondCommand("plugin_build", cache)
          /\ ctmp' = IF cpc' = "plugin_install" THEN "built" ELSE "absent"
       \/ /\ SecondCommand("plugin_install",
                           CMakeInstall(cache, "fusilli_plugin", Unversioned))
          /\ ctmp' = "absent"
    /\ UNCHANGED <<ovarsButCache, rvars, kvars, mvars>>

second_test_fusilli_plugin ==
    /\ \/ /\ cpc = "test_marker"
          /\ LET c == load_config IN
             IF c.ok /\ HasTable(c, "versions") /\ HasKey(c, "iree_git_tag")
             THEN /\ cache' = Add(cache, "dist", "iree_tag_for_pip.txt",
                                  PipVersion(Get(c, "iree_git_tag")))
                  /\ SecondProceed("test_marker")
             ELSE /\ SecondFatal
                  /\ UNCHANGED cache
          /\ UNCHANGED cgate
       \/ SecondCommand("test_run", cache)
    /\ UNCHANGED <<ctmp, ovarsButCache, rvars, kvars, mvars>>

CNext ==
    \/ \E a \in ArgSets : Invoke(a)
    \/ main_load_config
    \/ main_reset
    \/ setup_therock
    \/ install_hip
    \/ install_hipdnn_integration_tests
    \/ build_hipdnn
    \/ setup_iree
    \/ build_fusilli
    \/ generate_cmake_user_presets
    \/ generate_local_environment_setup
    \/ main_finalize
    \/ validate_config
    \/ build_fusilli_plugin
    \/ test_fusilli_plugin
    \/ second_invoke
    \/ second_validate_config
    \/ second_build_fusilli_plugin
    \/ second_test_fusilli_plugin

SpecConcurrent == Init /\ [][CNext]_vars

-----------------------------------------------------------------------------
(* Properties of the orchestrator *)

StageOf(p) ==
    CASE p = "load_config" -> 0
      [] p = "reset" -> 1
      [] p \in {"therock_clone", "therock_checkout", "therock_venv", "therock_req",
                "therock_reqtest"} -> 2
      [] p \in {"hip_install", "hip_fetch_llvm", "inttests_fetch"} -> 3
      [] p \in {"hipdnn_clone", "hipdnn_sparse_init", "hipdnn_sparse_set",
                "hipdnn_checkout", "hipdnn_configure", "hipdnn_build", "hipdnn_install",
                "iree_clone", "iree_flatcc", "iree_benchmark",
                "fusilli_configure", "fusilli_build", "fusilli_install"} -> 4
      [] p \in {"presets", "venv_create", "pip_install", "activate_write"} -> 5
      [] p = "finalize" -> 6

InDist(c) == {e \in c : e[1] = "dist"}

SetupOutputsPresent ==
    /\ Has(cache, "TheRock", "src")
    /\ Has(cache, "TheRock", ".venv")
    /\ Has(cache, "TheRock", "requirements")
    /\ Has(cache, "TheRock", "requirements-test")
    /\ Has(cache, "dist", "hip")
    /\ Has(cache, "dist", "amd-llvm_dev")
    /\ Has(cache, "dist", "hipdnn-integration-tests_test")
    /\ Has(cache, "dist", "hipdnn")
    /\ Has(cache, "iree", "src")
    /\ Has(cache, "iree", "third_party/flatcc")
    /\ Has(cache, "iree", "third_party/benchmark")
    /\ Has(cache, "dist", "fusilli")
    /\ presets
    /\ Has(cache, ".venv", "env")
    /\ Has(cache, ".venv", "iree-base-compiler")
    /\ Has(cache, ".", "activate")

StructurallyEqual(a, b) ==
    /\ tomllib_load(a).ok
    /\ tomllib_load(b).ok
    /\ tomllib_load(a).tables = tomllib_load(b).tables
    /\ tomllib_load(a).kv = tomllib_load(b).kv

\* C1 as stated: between invocations, the fingerprint exists iff the last
\* --setup invocation reached the fingerprint copy.
C1_FingerprintIffLastSetupOk ==
    pc = "idle" => (cached.exists <=> lastSetupRun = "ok")

\* C1 amended: the fingerprint exists iff the last --setup run that got past
\* loading its config (and so executed the reset) completed the fingerprint
\* copy; a run that dies while loading the config leaves the old one in place.
C1_FingerprintIffLastResetRunOk ==
    cached.exists <=> lastResetRun = "ok"

C1_Witness ==
    /\ pc = "idle"
    /\ everOk
    /\ lastResetRun = "failed"
    /\ ~cached.exists

\* C2: whenever the fingerprint exists, the outputs of every setup stage are
\* installed.
C2_FingerprintImpliesOutputs ==
    cached.exists => SetupOutputsPresent

C2_Witness ==
    /\ cached.exists
    /\ pc = "idle"
    /\ lastSetupRun = "ok"
    /\ Has(cache, "dist", "fusilli_plugin")

\* C3: the gate of a build-and-test run ends the process, with nothing
\* touched, when there is no fingerprint or the loaded config and the parsed
\* fingerprint differ structurally; it goes on to the plugin build when they
\* are structurally equal; the plugin build and the tests are entered only
\* through the gate.
C3_GateBeforeTargetTree ==
    [][/\ (pc = "validate_config" /\ pc' # pc) =>
            IF cached.exists /\ StructurallyEqual(configFile, cached)
            THEN pc' = "plugin_configure" /\ cache' = cache
            ELSE /\ pc' = "idle"
                 /\ exit' = <<1>>
                 /\ cache' = cache
                 /\ tmpdirs' = tmpdirs
       /\ (pc' \in CiPositions \ {"validate_config"} /\ pc' # pc) =>
            pc \in CiPositions]_vars

C3_Witness ==
    /\ pc = "plugin_configure"
    /\ gateSaw.ran
    /\ gateSaw.passed
    /\ gateSaw.cur.text # gateSaw.fp.text

\* C4: after a setup run that failed after the reset, every gate evaluation
\* fails until a setup run succeeds.
C4_FailedSetupFailsGate ==
    [][(lastResetRun = "failed" /\ pc = "validate_config" /\ pc' # pc) =>
            (pc' = "idle" /\ exit' = <<1>>)]_vars

C4_Witness ==
    /\ pc = "idle"
    /\ lastResetRun = "failed"
    /\ everOk
    /\ gateSaw.ran
    /\ ~gateSaw.passed
    /\ exit = <<1>>

\* C5: a setup run moves through the stages in the one order, a step at a
\* time; a failing step ends the process with status 1 and without writing
\* the fingerprint; the fingerprint is written by the last step only.
C5_StrictSequence ==
    [][/\ (pc \in SetupPositions /\ pc' # pc) =>
            \/ /\ pc' \in SetupPositions
               /\ exit' = <<>>
               /\ StageOf(pc') \in {StageOf(pc), StageOf(pc) + 1}
               /\ pc' \notin {"load_config", pc}
            \/ /\ pc' = "idle"
               /\ exit' = <<1>>
               /\ cached' \in {cached, NoFile}
            \/ /\ pc = "finalize"
               /\ cached'.exists
               /\ \/ pc' = "idle" /\ exit' = <<0>>
                  \/ pc' = "validate_config" /\ exit' = <<>>
       /\ (cached' # cached /\ cached'.exists) => pc = "finalize"]_vars

C5_Witness ==
    /\ pc = "idle"
    /\ exit = <<1>>
    /\ lastSetupRun = "failed"
    /\ Has(cache, "dist", "hipdnn")
    /\ ~Has(cache, "dist", "fusilli")
    /\ ~cached.exists

\* C6: the replace-mode install runs on an empty dist tree, and every flatten
\* fetch and cmake install of a setup run finds the replace-mode install
\* already done.
C6_ReplaceBeforeFlatten ==
    [][/\ (pc = "hip_install" /\ cache' # cache) => InDist(cache) = {}
       /\ (/\ pc \in {"hip_fetch_llvm", "inttests_fetch", "hipdnn_install",
                      "fusilli_install"}
           /\ cache' # cache) => Has(cache, "dist", "hip")]_vars

C6_Witness ==
    /\ pc = "hipdnn_clone"
    /\ Has(cache, "dist", "hip")
    /\ Has(cache, "dist", "amd-llvm_dev")
    /\ Has(cache, "dist", "hipdnn-integration-tests_test")

\* C10 as stated, for the orchestrator: a setup run whose config lacks a key
\* of the versions table neither resets the cache directory nor runs a stage.
C10_NoMutationOnBadConfig ==
    pc \in SetupPositions \ {"load_config"} =>
        \A i \in 1..Len(VersionKeys) : HasKey(config, VersionKeys[i])

\* C11 as stated: no invocation that performed the setup sequence through the
\* fingerprint copy goes on to the gate, the plugin build or the tests.
C11_MutuallyExclusive ==
    ~(args.setup /\ lastSetupRun = "ok" /\ pc \in CiPositions)

\* C11 amended: each sequence runs exactly when its flag was given, and the
\* two never interleave: the setup sequence is entered first and from the
\* command line only, the build-and-test sequence of an invocation given both
\* flags starts only after the fingerprint copy, and no statement of the
\* setup sequence follows one of the build-and-test sequence.
C11_SequencesFollowFlags ==
    [][/\ pc' \in SetupPositions => args'.setup
       /\ pc' \in CiPositions => args'.ci
       /\ (pc' \in CiPositions /\ args'.setup) => lastSetupRun' = "ok"
       /\ (pc = "idle" /\ pc' # "idle") =>
             pc' = IF args'.setup THEN "load_config" ELSE "validate_config"
       /\ (pc = "finalize" /\ pc' # pc /\ cached'.exists) =>
             pc' = IF args.ci THEN "validate_config" ELSE "idle"
       /\ pc \in CiPositions => pc' \notin SetupPositions]_vars

C11_Witness ==
    /\ pc = "test_run"
    /\ args.setup
    /\ args.ci
    /\ lastSetupRun = "ok"
    /\ gateSaw.passed

\* what a build-and-test run installs: the plugin and iree_tag_for_pip.txt
PluginOutputs == {"fusilli_plugin", "iree_tag_for_pip.txt"}

\* C12: no step taken while the process is in the build-and-test sequence
\* leads into the setup sequence, or changes the fingerprint, the presets or
\* the existence of the cache directory; every entry of the cache directory
\* other than the plugin's files and the version marker is still there
\* afterwards, and only those two are added, also by a step that fails.
C12_BuildAndTestOnlyAdds ==
    [][(pc \in CiPositions) =>
        (/\ pc' \notin SetupPositions
         /\ cached' = cached
         /\ pebble' = pebble
         /\ presets' = presets
         /\ \A e \in cache :
               e \in cache' \/ (e[1] = "dist" /\ e[2] \in PluginOutputs)
         /\ \A e \in cache' \ cache :
               e[1] = "dist" /\ e[2] \in PluginOutputs)]_vars

C12_Witness ==
    /\ pc = "idle"
    /\ exit = <<1>>
    /\ gateSaw.passed
    /\ cached.exists
    /\ Has(cache, "dist", "fusilli_plugin")
    /\ Has(cache, "dist", "iree_tag_for_pip.txt")
    /\ Has(cache, "dist", "hip")

\* C13 as stated: the fingerprint the last step of a setup run writes parses
\* to the dict that run loaded at its start and took its versions from.
C13_FingerprintIsConfigUsed ==
    [][(pc = "finalize" /\ cached' # cached) =>
            /\ tomllib_load(cached').ok
            /\ ConfigEq(tomllib_load(cached'), config)]_vars

\* C15 as stated: when the environment stage of a setup run is over, the dist
\* tree holds links to the compiler library and to its driver that point into
\* the venv.
C15_CompilerLinkedIntoTree ==
    pc = "finalize" =>
        /\ <<"dist", "lib/libIREECompiler.so", <<"->", ".venv">>>> \in cache
        /\ <<"dist", "bin/iree-compile", <<"->", ".venv">>>> \in cache

\* the components built with cmake, and the positions of their three steps
Built == {"hipdnn", "fusilli", "plugin"}
StepOf(x, n) ==
    <<x \o "_configure", x \o "_build", x \o "_install">>[n]
InstalledAs(x) == IF x = "plugin" THEN "fusilli_plugin" ELSE x
HasHipdnnBuildDir(c) == Has(c, "rocm-libraries", "build")

\* C20 as stated: outside the configure, build, install sequence of a
\* component its build directory does not exist.
C20_BuildDirsEphemeral ==
    /\ \A d \in {"fusilli", "plugin"} :
          pc \notin {StepOf(d, 2), StepOf(d, 3)} => tmpdirs[d] = "absent"
    /\ pc \notin {StepOf("hipdnn", 2), StepOf("hipdnn", 3)} =>
          ~HasHipdnnBuildDir(cache)

\* C20 amended: each component is configured, then built, then installed,
\* a failure ending the run; the install adds the component to dist and to
\* nothing else; the build directories of fusilli and of the plugin exist
\* during their own sequence only, also when a step failed; the build
\* directory of hipDNN, which lies in its checkout, is still there after the
\* install and goes with the next reset only.
C20_ConfigureBuildInstall ==
    [][/\ \A x \in Built :
            /\ (pc = StepOf(x, 1) /\ pc' # pc) => pc' \in {StepOf(x, 2), "idle"}
            /\ (pc = StepOf(x, 2) /\ pc' # pc) => pc' \in {StepOf(x, 3), "idle"}
            /\ (pc = StepOf(x, 3) /\ pc' # pc) => pc' \notin {StepOf(x, n) : n \in 1..3}
            /\ (pc' = StepOf(x, 2) /\ pc' # pc) => pc = StepOf(x, 1)
            /\ (pc' = StepOf(x, 3) /\ pc' # pc) => pc = StepOf(x, 2)
            /\ (pc \in {StepOf(x, n) : n \in 1..3} /\ pc' = "idle") => exit' = <<1>>
            /\ (pc = StepOf(x, 3) /\ pc' \notin {pc, "idle"}) =>
                  /\ Has(cache', "dist", InstalledAs(x))
                  /\ cache' \ cache \subseteq
                        {e \in cache' : e[1] = "dist" /\ e[2] = InstalledAs(x)}
                  /\ cache \ cache' \subseteq
                        {e \in cache : e[1] = "dist" /\ e[2] = InstalledAs(x)}
       /\ \A d \in {"fusilli", "plugin"} :
            tmpdirs'[d] # "absent" => pc' \in {StepOf(d, 2), StepOf(d, 3)}
       /\ (pc = StepOf("hipdnn", 3) /\ pc' # pc) => HasHipdnnBuildDir(cache')
       /\ (HasHipdnnBuildDir(cache) /\ ~HasHipdnnBuildDir(cache')) => pc = "reset"]_vars

C20_Witness ==
    /\ pc = "idle"
    /\ exit = <<1>>
    /\ gateSaw.passed
    /\ ~Has(cache, "dist", "fusilli_plugin")
    /\ Has(cache, "dist", "fusilli")
    /\ Has(cache, "dist", "hipdnn")
    /\ HasHipdnnBuildDir(cache)
    /\ \A d \in {"fusilli", "plugin"} : tmpdirs[d] = "absent"

\* C21 as stated: when the test script is about to run, the plugin is
\* installed and iree_tag_for_pip.txt holds the iree tag, less its "iree-",
\* of the fingerprint the gate of this run accepted.
C21_MarkerIsValidatedVersion ==
    pc = "test_run" =>
        /\ gateSaw.passed
        /\ Has(cache, "dist", "fusilli_plugin")
        /\ HasKey(tomllib_load(gateSaw.fp), "iree_git_tag")
        /\ <<"dist", "iree_tag_for_pip.txt",
              PipVersion(Get(tomllib_load(gateSaw.fp), "iree_git_tag"))>> \in cache

\* C22: on one output directory, with a replace-mode script and a flatten-mode
\* script delivering distinct files: replace then flatten leaves the files of
\* both, flatten then replace leaves in the directory the files of the replace
\* script only, those of the flatten script being deleted
C22_MergeModesDoNotCommute ==
    Len(mergeLog) = 2 =>
        LET first == mergeLog[1]
            second == mergeLog[2] IN
        IF first.mode = "replace"
        THEN /\ <<"dist", first.name, first.ver>> \in mergeTree
             /\ <<"dist", second.name, second.ver>> \in mergeTree
        ELSE /\ InDist(mergeTree) = {<<"dist", second.name, second.ver>>}
             /\ ~Has(mergeTree, "dist", first.name)

C22_Witness ==
    /\ Len(mergeLog) = 2
    /\ mergeLog[1].mode = "flatten"
    /\ mergeLog[1].name = "amd-llvm_dev"
    /\ mergeLog[2].mode = "replace"
    /\ ~Has(mergeTree, "dist", "amd-llvm_dev")
    /\ Has(mergeTree, "dist", "hip")
    /\ Has(mergeTree, "TheRock", "src")

PostGate == {"plugin_configure", "plugin_build", "plugin_install", "test_marker",
             "test_run"}

\* C23: nothing locks PEBBLE_DIR: the reset of a setup empties the tree and
\* removes the fingerprint wherever a concurrent build-and-test process stands,
\* without stopping it or failing it; past its gate that process never looks at
\* the fingerprint again, and its install adds the plugin to the tree as it is
C23_ResetUnderBuildAndTest ==
    [][/\ (pc = "reset" /\ pc' # pc /\ pebble) =>
              /\ cache' = {}
              /\ ~cached'.exists
              /\ cpc' = cpc
              /\ cexit' = cexit
              /\ cgate' = cgate
       /\ (cpc \in PostGate /\ cpc' # cpc) =>
              /\ cgate' = cgate
              /\ cached' = cached
              /\ cpc' \in {SecondSucc(cpc), "idle"}
              /\ (cpc' = "idle") => (cexit' = <<1>> \/ cpc = "test_run")
              /\ (cpc = "plugin_install" /\ cpc' = "test_marker") =>
                     cache' = cache \cup {<<"dist", "fusilli_plugin", Unversioned>>}
      ]_vars

\* the second process passed its gate, the setup then reset the tree, and the
\* second process installed the plugin into the reset tree unfailed
C23_Witness ==
    /\ cpc = "test_marker"
    /\ cgate.passed
    /\ cexit = <<>>
    /\ lastResetRun = "running"
    /\ pc \in SetupPositions
    /\ ~cached.exists
    /\ Has(cache, "dist", "fusilli_plugin")
    /\ ~Has(cache, "dist", "hip")
    /\ ~Has(cache, "dist", "fusilli")

-----------------------------------------------------------------------------
(* Properties of the resolver *)

Min(a, b) == IF a < b THEN a ELSE b

\* the positions of tags whose ordinal is above that of v
TagsAbove(tags, v) ==
    {j \in 1..Len(tags) :
        KeyLess(_version_sort_key(v), _version_sort_key(tags[j]))}

\* C7: the wheel probes go to at most two of the rc tags, the highest first
\* and then the next one down, each probed only after the one before failed;
\* the version returned is the one whose probe succeeded; with no rc tag, or
\* with every probe failed, the run ends with status 1 and no version chosen.
C7_TopTwoFirstSuccess ==
    LET matching == RcVersionsOf(hist.tags)
        probes == hist.wheelProbes
        n == Len(probes)
    IN  /\ n <= 2
        /\ \A i \in 1..n :
              /\ \E j \in 1..Len(matching) : matching[j] = probes[i].version
              /\ Cardinality(TagsAbove(matching, probes[i].version)) <= i - 1
              /\ \A j \in 1..(i - 1) :
                    /\ probes[j].version # probes[i].version
                    /\ ~probes[j].found
                    /\ ~KeyLess(_version_sort_key(probes[j].version),
                                _version_sort_key(probes[i].version))
        /\ rpc = "verify_iree_wheel" => matching # <<>> /\ (n > 0 => ~probes[n].found)
        /\ rpc = "find_latest_therock_version" =>
              /\ n >= 1
              /\ probes[n].found
              /\ loc.latest_iree = probes[n].version
        /\ (n = Min(2, Len(matching)) /\ n > 0 /\ ~probes[n].found) =>
              (rpc = "idle" /\ hist.fatalAt = "no_wheel")
        /\ hist.fatalAt = "no_rc_tags" => matching = <<>> /\ n = 0
        /\ hist.fatalAt \in {"gh_api_tags", "no_rc_tags", "no_wheel"} =>
              /\ rpc = "idle"
              /\ rexit = <<1>>
              /\ loc.latest_iree = NoVersion
              /\ hist.writes = 0

C7_Witness ==
    /\ rpc = "find_latest_therock_version"
    /\ Len(RcVersionsOf(hist.tags)) >= 3
    /\ Len(hist.wheelProbes) = 2
    /\ ~hist.wheelProbes[1].found
    /\ hist.wheelProbes[2].found

EndsInEightDigits(v) ==
    Len(v) >= 8 /\ \A i \in (Len(v) - 7)..Len(v) : v[i] \in Digit

WithoutLastEight(v) == SubSeq(v, 1, Len(v) - 8)

\* today, yesterday and the day before as %Y%m%d, written out
ExpectedDates(today) ==
    IF today = <<2026, 3, 1>>
    THEN <<<<"2", "0", "2", "6", "0", "3", "0", "1">>,
           <<"2", "0", "2", "6", "0", "2", "2", "8">>,
           <<"2", "0", "2", "6", "0", "2", "2", "7">>>>
    ELSE <<<<"2", "0", "2", "6", "0", "3", "0", "2">>,
           <<"2", "0", "2", "6", "0", "3", "0", "1">>,
           <<"2", "0", "2", "6", "0", "2", "2", "8">>>>

TheRockReturned == rpc = "set_github_env" /\ loc.k = 1

\* C8 as stated: a current version that ends in an 8-digit date is probed.
C8_DatedVersionIsProbed ==
    (TheRockReturned /\ EndsInEightDigits(loc.current_therock)) =>
        Len(hist.cdnProbes) >= 1

\* C8 amended: a current version that ends in an 8-digit date after at least
\* one other character is probed as prefix+date for today, yesterday and the
\* day before, in that order, up to the first 200, whose candidate is
\* returned; after three failures, or for a version with no such suffix (the
\* bare 8 digits included), the current version is returned without probing
\* further, and the run goes on.
C8_ThreeDatesMostRecentFirst ==
    LET cur == loc.current_therock
        probes == hist.cdnProbes
        n == Len(probes)
        dated == EndsInEightDigits(cur) /\ Len(cur) > 8
    IN  (rpc = "cdn_probe" \/ TheRockReturned) =>
          /\ n <= 3
          /\ rexit = <<>>
          /\ \A i \in 1..n :
                /\ dated
                /\ probes[i].candidate =
                        WithoutLastEight(cur) \o ExpectedDates(loc.today)[i]
                /\ i < n => probes[i].outcome # "200"
          /\ rpc = "cdn_probe" => dated /\ (n > 0 => probes[n].outcome # "200")
          /\ TheRockReturned =>
                IF ~dated THEN n = 0 /\ loc.latest_therock = cur
                ELSE /\ n >= 1
                     /\ IF probes[n].outcome = "200"
                        THEN loc.latest_therock = probes[n].candidate
                        ELSE n = 3 /\ loc.latest_therock = cur

C8_Witness ==
    /\ TheRockReturned
    /\ loc.today = <<2026, 3, 1>>
    /\ loc.current_therock = TheRockPrefix \o ExpectedDates(<<2026, 3, 1>>)[2]
    /\ Len(hist.cdnProbes) = 3
    /\ hist.cdnProbes[3].outcome = "200"
    /\ loc.latest_therock = TheRockPrefix \o ExpectedDates(<<2026, 3, 1>>)[3]

\* C9: a run that reaches compare-and-update writes version.json once when a
\* resolved version differs from the pinned one and not at all otherwise;
\* a run that resolves what the run before it resolved writes nothing.
C9_WriteIffChanged ==
    /\ rpc # "idle" => hist.writes = 0
    /\ (rpc = "idle" /\ rexit = <<0>>) =>
          /\ hist.writes =
                IF \/ loc.latest_iree # loc.current_iree
                   \/ loc.latest_therock # loc.current_therock
                THEN 1 ELSE 0
          /\ DictGet(json_loads(versionFile).dict, "iree-version") = loc.latest_iree
          /\ DictGet(json_loads(versionFile).dict, "therock-version")
                = loc.latest_therock
          /\ (hist.prev # NoPair /\ hist.prev = hist.last) => hist.writes = 0

C9_Witness ==
    /\ rpc = "idle"
    /\ rexit = <<0>>
    /\ hist.runs = 2
    /\ hist.prev # NoPair
    /\ hist.prev = hist.last
    /\ hist.prevWrites = 1
    /\ hist.writes = 0

\* the four pairs main passes to set_github_env, in its order
FourPairs ==
    <<<<"CURRENT_IREE_VERSION", DictGet(json_loads(hist.start).dict, "iree-version")>>,
      <<"CURRENT_THEROCK_VERSION",
        DictGet(json_loads(hist.start).dict, "therock-version")>>,
      <<"LATEST_IREE_VERSION", loc.latest_iree>>,
      <<"LATEST_THEROCK_VERSION", loc.latest_therock>>>>

\* C14: when a run stands before compare-and-update, and after it whatever
\* the outcome, the four pairs (the pinned values as read at the start and the
\* resolved values) have been printed, in order; they are in the GITHUB_ENV
\* file exactly when GITHUB_ENV is set; version.json is written only after
\* all four.
C14_PairsAlwaysExported ==
    /\ (rpc = "compare_and_update" \/ (rpc = "idle" /\ rexit = <<0>>)) =>
          /\ stdout = FourPairs
          /\ envFile = IF loc.github_env THEN FourPairs ELSE <<>>
    /\ rpc = "compare_and_update" => (hist.writes = 0 /\ versionFile = hist.start)
    /\ (hist.runs > 0 /\ versionFile # hist.start) => stdout = FourPairs
    /\ rpc \in {"read_version_json", "gh_api_tags", "verify_iree_wheel",
                 "find_latest_therock_version", "cdn_probe"} =>
          (stdout = <<>> /\ envFile = <<>>)

C14_Witness ==
    /\ rpc = "idle"
    /\ rexit = <<0>>
    /\ hist.writes = 0
    /\ loc.github_env
    /\ Len(envFile) = 4
    /\ loc.latest_iree = loc.current_iree
    /\ loc.latest_therock = loc.current_therock

\* C18: after a run that ended normally, version.json holds the members it
\* held at the start, in their order; the value of a member differs only for
\* iree-version or therock-version and only where the resolved version
\* differs from the pinned one, which it then replaces.
C18_WriteBackFrame ==
    (rpc = "idle" /\ rexit = <<0>>) =>
        LET old == json_loads(hist.start).dict
            new == json_loads(versionFile).dict
            Resolved(k) == IF k = "iree-version" THEN loc.latest_iree
                           ELSE loc.latest_therock
        IN  /\ Len(new) = Len(old)
            /\ \A i \in 1..Len(old) :
                  /\ new[i][1] = old[i][1]
                  /\ IF old[i][1] \in {"iree-version", "therock-version"}
                     THEN new[i][2] = Resolved(old[i][1])
                     ELSE new[i][2] = old[i][2]
                  /\ new[i][2] # old[i][2] =>
                        /\ old[i][1] \in {"iree-version", "therock-version"}
                        /\ Resolved(old[i][1]) # old[i][2]

C18_Witness ==
    /\ rpc = "idle"
    /\ rexit = <<0>>
    /\ hist.writes = 1
    /\ loc.latest_iree # loc.current_iree
    /\ loc.latest_therock = loc.current_therock
    /\ DictHas(json_loads(versionFile).dict, "note")

PrimaryFatal == hist.fatalAt \in {"gh_api_tags", "no_rc_tags", "no_wheel"}

\* C19: a run in which the tag listing failed, or listed no rc tag, or in
\* which the wheel probe of every candidate failed, has ended with status 1
\* with no nightly probed, no pair printed or appended and version.json as it
\* was at the start; a run gets to the nightlies only after a wheel probe
\* that succeeded.
C19_PrimaryFatalStopsRun ==
    /\ PrimaryFatal =>
          /\ rpc = "idle"
          /\ rexit = <<1>>
          /\ hist.cdnProbes = <<>>
          /\ loc.latest_therock = NoVersion
          /\ loc.today = NoDate
          /\ stdout = <<>>
          /\ envFile = <<>>
          /\ hist.writes = 0
          /\ versionFile = hist.start
    /\ hist.fatalAt = "no_rc_tags" => RcVersionsOf(hist.tags) = <<>>
    /\ hist.fatalAt = "no_wheel" =>
          /\ Len(hist.wheelProbes) = Min(2, Len(RcVersionsOf(hist.tags)))
          /\ \A i \in 1..Len(hist.wheelProbes) : ~hist.wheelProbes[i].found
    /\ rpc = "find_latest_therock_version" =>
          /\ hist.fatalAt = ""
          /\ Len(hist.wheelProbes) >= 1
          /\ hist.wheelProbes[Len(hist.wheelProbes)].found

C19_Witness ==
    /\ hist.fatalAt = "no_wheel"
    /\ Len(hist.wheelProbes) = 2
    /\ hist.runs = 2
    /\ hist.prevWrites = 1
    /\ rexit = <<1>>

LastEight(v) == SubSeq(v, Len(v) - 7, Len(v))

\* C24 as stated: after a run that ended normally, the iree-version in
\* version.json has no lower tuple than the one pinned at the start, and the
\* date at the end of therock-version is no earlier than the pinned date.
C24_NeverOlderThanPinned ==
    (rpc = "idle" /\ rexit = <<0>>) =>
        LET old == json_loads(hist.start).dict
            new == json_loads(versionFile).dict
            oldRock == DictGet(old, "therock-version")
            newRock == DictGet(new, "therock-version")
        IN  /\ ~KeyLess(_version_sort_key(DictGet(new, "iree-version")),
                        _version_sort_key(DictGet(old, "iree-version")))
            /\ (EndsInEightDigits(oldRock) /\ EndsInEightDigits(newRock)) =>
                  ToInt(LastEight(newRock)) >= ToInt(LastEight(oldRock))

\* C25 as stated: a wheel probe finds a candidate only when the page lists a
\* wheel of exactly that version.
C25_ExactWheelOnly ==
    \A i \in 1..Len(hist.wheelProbes) :
        hist.wheelProbes[i].found =>
            hist.wheelProbes[i].version \in hist.wheelProbes[i].page

-----------------------------------------------------------------------------
(* Properties of _version_sort_key *)

ZeroOrdinal == <<0, 0, 0, 0>>

\* a is an earlier release than b, on (major, minor, patch, index)
EarlierRelease(a, b) ==
    \/ a[1] < b[1]
    \/ a[1] = b[1] /\ a[2] < b[2]
    \/ a[1] = b[1] /\ a[2] = b[2] /\ a[3] < b[3]
    \/ a[1] = b[1] /\ a[2] = b[2] /\ a[3] = b[3] /\ a[4] < b[4]

\* C16 as stated: a string that is not a version parses to (0,0,0,0), and
\* (0,0,0,0) is below the tuple of every version.
C16_MalformedSortsBelowValid ==
    sortKeys # <<>> =>
        \A i \in 1..2 :
            IF sortArgs[i].kind = "valid"
            THEN KeyLess(ZeroOrdinal, sortKeys[i])
            ELSE sortKeys[i] = ZeroOrdinal

\* C16 amended: a string that does not start with a version parses to
\* (0,0,0,0); a version followed by other characters parses to the tuple of
\* that version; (0,0,0,0) is never above the tuple of a version, and is
\* strictly below it unless the four numbers of the version are all zero.
C16_MalformedParseToZero ==
    sortKeys # <<>> =>
        \A i \in 1..2 :
            CASE sortArgs[i].kind = "nomatch" -> sortKeys[i] = ZeroOrdinal
              [] sortArgs[i].kind = "prefixed" -> sortKeys[i] = sortArgs[i].denotes
              [] sortArgs[i].kind = "valid" ->
                    /\ ~KeyLess(sortKeys[i], ZeroOrdinal)
                    /\ KeyLess(ZeroOrdinal, sortKeys[i])
                            <=> sortArgs[i].denotes # ZeroOrdinal

C16_Witness ==
    /\ sortKeys # <<>>
    /\ sortArgs[1].kind = "nomatch"
    /\ Len(sortArgs[1].text) = 10
    /\ sortArgs[2].kind = "valid"
    /\ sortArgs[2].denotes = <<0, 0, 0, 9>>
    /\ KeyLess(sortKeys[1], sortKeys[2])

\* C17: of two versions, the one that is the earlier release on the numbers
\* (major, minor, patch, index) gets the smaller tuple.
C17_OrderPreserving ==
    (/\ sortKeys # <<>>
     /\ sortArgs[1].kind = "valid"
     /\ sortArgs[2].kind = "valid"
     /\ EarlierRelease(sortArgs[1].denotes, sortArgs[2].denotes)) =>
        KeyLess(sortKeys[1], sortKeys[2])

C17_Witness ==
    /\ sortKeys # <<>>
    /\ sortArgs[1].kind = "valid"
    /\ sortArgs[2].kind = "valid"
    /\ sortArgs[1].denotes = <<10, 9, 0, 10>>
    /\ sortArgs[2].denotes = <<10, 10, 0, 9>>
    /\ Len(sortArgs[2].text) = 11
    /\ KeyLess(sortKeys[1], sortKeys[2])

====
